---- MODULE Spec2Model ----
(***************************************************************************)
(* The skill scaffolding tools of skills/learning/scripts: create_skill,   *)
(* implement_action, search_skills and install_skill, over an explicit    *)
(* filesystem.  Text is a sequence of one-character strings, so that      *)
(* strip, startswith, title, replace and the substring test are computed  *)
(* character by character as Python computes them.                        *)
(***************************************************************************)
EXTENDS Integers, Sequences, FiniteSets, TLC

VARIABLES dirs, files, last, calls, nfaults, procs, clawhub

vars == <<dirs, files, last, calls, nfaults, procs, clawhub>>

(* Bounds of the model *)
MaxCalls == 3
MaxFaults == 1
MaxPad == 1

(***************************************************************************)
(* Characters that cannot be written inside a TLA+ string: each of these  *)
(* values stands for the one character it names.                          *)
(***************************************************************************)
DQ == "<double quote>"
BQ == "<backtick>"
SPARKLES == "<U+2728>"

SCRIPTS ==
    <<"s", "c", "r", "i", "p", "t", "s">>

SKILL_MD ==
    <<"S", "K", "I", "L", "L", ".", "m", "d">>

metadata_json ==
    <<"{", DQ, "o", "p", "e", "n", "c", "l", "a", "w", DQ, ":", " ", "{", DQ,
      "e", "m", "o", "j", "i", DQ, ":", " ", DQ, SPARKLES, DQ, ",", " ", DQ,
      "r", "e", "q", "u", "i", "r", "e", "s", DQ, ":", " ", "{", DQ, "b",
      "i", "n", "s", DQ, ":", " ", "[", "]", ",", " ", DQ, "e", "n", "v", DQ,
      ":", " ", "[", "]", "}", "}", "}">>

MD_NAME ==
    <<"-", "-", "-", "\n", "n", "a", "m", "e", ":", " ">>

MD_DESCRIPTION ==
    <<"\n", "d", "e", "s", "c", "r", "i", "p", "t", "i", "o", "n", ":", " ">>

MD_METADATA ==
    <<"\n", "m", "e", "t", "a", "d", "a", "t", "a", ":", " ">>

MD_TITLE ==
    <<"\n", "-", "-", "-", "\n", "\n", "#", " ">>

MD_BODY ==
    <<"\n", "\n">>

MD_ACTIONS ==
    <<"\n", "\n", "#", "#", " ", "A", "c", "t", "i", "o", "n", "s", "\n", "\n">>

H3 ==
    <<"#", "#", "#", " ">>

ACTIONS_HEADING ==
    <<"#", "#", " ", "A", "c", "t", "i", "o", "n", "s">>

ACTIONS_SECTION ==
    <<"\n", "#", "#", " ", "A", "c", "t", "i", "o", "n", "s", "\n">>

BLOCK_HEAD ==
    <<"\n", "#", "#", "#", " ">>

NL ==
    <<"\n">>

BLOCK_CMD ==
    <<"\n", BQ, BQ, BQ, "b", "a", "s", "h", "\n", "{", "b", "a", "s", "e",
      "D", "i", "r", "}", "/", "s", "c", "r", "i", "p", "t", "s", "/">>

BLOCK_END ==
    <<"\n", BQ, BQ, BQ, "\n">>

PY_SHEBANG ==
    <<"#", "!", "/", "u", "s", "r", "/", "b", "i", "n", "/", "e", "n", "v",
      " ", "p", "y", "t", "h", "o", "n">>

PY_IMPORT ==
    <<"i", "m", "p", "o", "r", "t", " ">>

JS_SHEBANG ==
    <<"#", "!", "/", "u", "s", "r", "/", "b", "i", "n", "/", "e", "n", "v",
      " ", "n", "o", "d", "e">>

JS_CONST ==
    <<"c", "o", "n", "s", "t", " ">>

EXT_SH ==
    <<".", "s", "h">>

EXT_PY ==
    <<".", "p", "y">>

EXT_JS ==
    <<".", "j", "s">>

LOWER ==
    <<"a", "b", "c", "d", "e", "f", "g", "h", "i", "j", "k", "l", "m", "n",
      "o", "p", "q", "r", "s", "t", "u", "v", "w", "x", "y", "z">>

UPPER ==
    <<"A", "B", "C", "D", "E", "F", "G", "H", "I", "J", "K", "L", "M", "N",
      "O", "P", "Q", "R", "S", "T", "U", "V", "W", "X", "Y", "Z">>

(***************************************************************************)
(* Python's str operations                                                 *)
(***************************************************************************)
WHITESPACE == {" ", "\t", "\n", "\r", "\f"}

startswith(s, prefix) ==
    /\ Len(prefix) <= Len(s)
    /\ SubSeq(s, 1, Len(prefix)) = prefix

(* needle in hay *)
contains(hay, needle) ==
    \E i \in 0..(Len(hay) - Len(needle)) :
        SubSeq(hay, i + 1, i + Len(needle)) = needle

RECURSIVE lstrip(_)
lstrip(s) ==
    IF s # <<>> /\ Head(s) \in WHITESPACE THEN lstrip(Tail(s)) ELSE s

RECURSIVE rstrip(_)
rstrip(s) ==
    IF s # <<>> /\ s[Len(s)] \in WHITESPACE
    THEN rstrip(SubSeq(s, 1, Len(s) - 1))
    ELSE s

strip(s) == rstrip(lstrip(s))

replace(s, old, new) == [i \in 1..Len(s) |-> IF s[i] = old THEN new ELSE s[i]]

IndexIn(alphabet, c) == CHOOSE i \in 1..Len(alphabet) : alphabet[i] = c

IsLower(c) == \E i \in 1..Len(LOWER) : LOWER[i] = c

IsUpper(c) == \E i \in 1..Len(UPPER) : UPPER[i] = c

IsCased(c) == IsLower(c) \/ IsUpper(c)

ToUpper(c) == IF IsLower(c) THEN UPPER[IndexIn(LOWER, c)] ELSE c

ToLower(c) == IF IsUpper(c) THEN LOWER[IndexIn(UPPER, c)] ELSE c

(* str.title(): a cased character is upper-cased when the character before
   it is not cased, and lower-cased otherwise *)
title(s) ==
    [i \in 1..Len(s) |->
        IF i > 1 /\ IsCased(s[i - 1]) THEN ToLower(s[i]) ELSE ToUpper(s[i])]

(***************************************************************************)
(* The filesystem: dirs is the set of directories, files maps the path of *)
(* each regular file to its content and mode.  A path is the sequence of  *)
(* its components below the skills root.                                   *)
(***************************************************************************)
skills_root == <<>>

Join(path, component) == Append(path, component)

Parent(path) == SubSeq(path, 1, Len(path) - 1)

(* the mode of a file that open() creates: 0o666 under the usual umask 0o022 *)
DefaultMode == 420

(* 0o755 *)
Mode755 == 493

ExistsIn(ds, path) == path \in ds \/ path \in DOMAIN files

exists(path) == ExistsIn(dirs, path)

IsDir(path) == path \in dirs

IsFile(path) == path \in DOMAIN files

(* open(path, "w") followed by a complete write: the file is created with
   the default mode, or truncated keeping its mode *)
WriteFile(fs, path, content) ==
    [p \in DOMAIN fs \cup {path} |->
        IF p = path
        THEN [content |-> content,
              mode |-> IF path \in DOMAIN fs THEN fs[path].mode ELSE DefaultMode]
        ELSE fs[p]]

(* a chmod that changes nothing *)
Chmod_skipped(fs, path, mode) == fs

Chmod(fs, path, mode) == [fs EXCEPT ![path].mode = mode]

(* what a write that raises part-way leaves behind *)
Prefixes(text) == {SubSeq(text, 1, k) : k \in {0, Len(text) \div 2}}

(* os.makedirs(name), exist_ok=False: creates the missing parent, ignoring a
   FileExistsError there, then mkdir(name).  fault is the mkdir that the
   filesystem rejects, if any. *)
RECURSIVE makedirs(_, _, _)
makedirs(ds, name, fault) ==
    LET head == Parent(name)
        up == IF Len(name) > 1 /\ ~ExistsIn(ds, head)
              THEN makedirs(ds, head, IF fault = "mkdir_head" THEN "mkdir" ELSE "none")
              ELSE [dirs |-> ds, raised |-> "none"]
    IN  IF up.raised \notin {"none", "FileExistsError"}
        THEN up
        ELSE IF fault = "mkdir"
        THEN [dirs |-> up.dirs, raised |-> "OSError"]
        ELSE IF ExistsIn(up.dirs, name)
        THEN [dirs |-> up.dirs, raised |-> "FileExistsError"]
        ELSE [dirs |-> up.dirs \cup {name}, raised |-> "none"]

(***************************************************************************)
(* The end of an invocation: its exit status and what it printed           *)
(***************************************************************************)
Exit(op, args, status, out, fault) ==
    /\ last' = [op |-> op, args |-> args, status |-> status, out |-> out,
                fault |-> fault]
    /\ calls' = calls + 1
    /\ nfaults' = IF fault = "none" THEN nfaults ELSE nfaults + 1

(***************************************************************************)
(* create_skill.py                                                         *)
(***************************************************************************)
skill_md_content(name, description) ==
    MD_NAME \o name \o MD_DESCRIPTION \o description \o MD_METADATA
        \o metadata_json \o MD_TITLE \o title(replace(name, "-", " "))
        \o MD_BODY \o description \o MD_ACTIONS

(* the except branch without sys.exit(1) *)
create_failed_exit0(args, out, fault) ==
    Exit("create_skill", args, 0, out \o <<"Error creating skill">>, fault)

(* except Exception: the error is printed and sys.exit(1) *)
create_failed(args, out, fault) ==
    Exit("create_skill", args, 1, out \o <<"Error creating skill">>, fault)

(* the try block: makedirs, then SKILL.md *)
scaffold(name, description, fault) ==
    LET skill_dir == Join(skills_root, name)
        scripts_dir == Join(skill_dir, SCRIPTS)
        skill_md == Join(skill_dir, SKILL_MD)
        args == <<name, description>>
        made == makedirs(dirs, scripts_dir, fault)
        created == <<"Created directory", "Created directory">>
    IN  IF made.raised # "none"
        THEN /\ dirs' = made.dirs
             /\ UNCHANGED files
             /\ create_failed(args, <<>>, fault)
        ELSE IF fault = "md_open"
        THEN /\ dirs' = made.dirs
             /\ UNCHANGED files
             /\ create_failed(args, created, fault)
        ELSE IF fault = "md_write"
        THEN /\ dirs' = made.dirs
             /\ \E part \in Prefixes(skill_md_content(name, description)) :
                    files' = WriteFile(files, skill_md, part)
             /\ create_failed(args, created, fault)
        ELSE /\ dirs' = made.dirs
             /\ files' = WriteFile(files, skill_md, skill_md_content(name, description))
             /\ Exit("create_skill", args, 0,
                     created \o <<"Created SKILL.md">>, "none")

(* create_skill without the existence check *)
create_skill_unchecked(name, description, fault) ==
    scaffold(name, description, fault)

create_skill(name, description, fault) ==
    IF exists(Join(skills_root, name))
    THEN /\ UNCHANGED <<dirs, files>>
         /\ Exit("create_skill", <<name, description>>, 1,
                 <<"Error: Skill already exists">>, "none")
    ELSE scaffold(name, description, fault)

(***************************************************************************)
(* implement_action.py                                                     *)
(***************************************************************************)
(* the inference on the code as given, without strip() *)
script_ext_unstripped(code) ==
    IF startswith(code, PY_SHEBANG) \/ startswith(code, PY_IMPORT)
    THEN EXT_PY
    ELSE IF startswith(code, JS_SHEBANG) \/ startswith(code, JS_CONST)
    THEN EXT_JS
    ELSE EXT_SH

script_ext(code) ==
    IF startswith(strip(code), PY_SHEBANG) \/ startswith(strip(code), PY_IMPORT)
    THEN EXT_PY
    ELSE IF startswith(strip(code), JS_SHEBANG) \/ startswith(strip(code), JS_CONST)
    THEN EXT_JS
    ELSE EXT_SH

script_filename(action_name, code) == action_name \o script_ext(code)

action_heading(action_name) == H3 \o title(replace(action_name, "_", " "))

(* the duplicate test: f"### {...}" in content *)
already_documented(content, action_name) ==
    contains(content, action_heading(action_name))

new_action_block(action_name, description, filename) ==
    BLOCK_HEAD \o title(replace(action_name, "_", " ")) \o NL \o description
        \o BLOCK_CMD \o filename \o BLOCK_END

(* what is appended to SKILL.md for a new action *)
appended_text(content, action_name, description, filename) ==
    IF contains(content, ACTIONS_HEADING)
    THEN new_action_block(action_name, description, filename)
    ELSE ACTIONS_SECTION \o new_action_block(action_name, description, filename)

(* open(path, "a") and write *)
AppendFile(fs, path, text) == [fs EXCEPT ![path].content = @ \o text]

(* except around the script write: the error is printed and sys.exit(1) *)
script_write_failed(args, fault) ==
    Exit("implement_action", args, 1, <<"Error writing script file">>, fault)

(* the SKILL.md except branch ending in sys.exit(1) *)
md_update_failed_exits(args, fault) ==
    Exit("implement_action", args, 1,
         <<"Created script", "Error updating SKILL.md">>, fault)

(* except around the SKILL.md update: the error is printed and the function
   returns, so the process ends with status 0 *)
md_update_failed(args, fault) ==
    Exit("implement_action", args, 0,
         <<"Created script", "Error updating SKILL.md">>, fault)

(* everything after the skill directory was found *)
write_action(skill_name, action_name, description, code, fault) ==
    LET skill_dir == Join(skills_root, skill_name)
        skill_md_path == Join(skill_dir, SKILL_MD)
        scripts_dir == Join(skill_dir, SCRIPTS)
        args == <<skill_name, action_name, description, code>>
        made == IF ~exists(scripts_dir)
                THEN makedirs(dirs, scripts_dir, fault)
                ELSE [dirs |-> dirs, raised |-> "none"]
        filename == script_filename(action_name, code)
        script_path == Join(scripts_dir, filename)
        written == Chmod(WriteFile(files, script_path, code), script_path, Mode755)
    IN  IF made.raised # "none"
        THEN /\ dirs' = made.dirs
             /\ UNCHANGED files
             /\ Exit("implement_action", args, 1, <<"Traceback">>, fault)
        ELSE IF fault = "script_open"
        THEN /\ dirs' = made.dirs
             /\ UNCHANGED files
             /\ script_write_failed(args, fault)
        ELSE IF fault = "script_write"
        THEN /\ dirs' = made.dirs
             /\ \E part \in Prefixes(code) :
                    files' = WriteFile(files, script_path, part)
             /\ script_write_failed(args, fault)
        ELSE IF fault = "chmod"
        THEN /\ dirs' = made.dirs
             /\ files' = WriteFile(files, script_path, code)
             /\ script_write_failed(args, fault)
        ELSE IF ~IsFile(skill_md_path)
        THEN /\ dirs' = made.dirs
             /\ files' = written
             /\ md_update_failed(args, "none")
        ELSE IF fault = "md_read"
        THEN /\ dirs' = made.dirs
             /\ files' = written
             /\ md_update_failed(args, fault)
        ELSE IF already_documented(files[skill_md_path].content, action_name)
        THEN /\ dirs' = made.dirs
             /\ files' = written
             /\ Exit("implement_action", args, 0,
                     <<"Created script", "Warning: Action seems to already exist">>,
                     "none")
        ELSE IF fault = "md_append"
        THEN /\ dirs' = made.dirs
             /\ \E part \in Prefixes(appended_text(files[skill_md_path].content,
                                                   action_name, description, filename)) :
                    files' = AppendFile(written, skill_md_path, part)
             /\ md_update_failed(args, fault)
        ELSE /\ dirs' = made.dirs
             /\ files' = AppendFile(written, skill_md_path,
                                    appended_text(files[skill_md_path].content,
                                                  action_name, description, filename))
             /\ Exit("implement_action", args, 0,
                     <<"Created script", "Updated SKILL.md">>, "none")

(* implement_action without the existence check *)
implement_action_unchecked(skill_name, action_name, description, code, fault) ==
    write_action(skill_name, action_name, description, code, fault)

implement_action(skill_name, action_name, description, code, fault) ==
    IF ~exists(Join(skills_root, skill_name))
    THEN /\ UNCHANGED <<dirs, files>>
         /\ Exit("implement_action", <<skill_name, action_name, description, code>>, 1,
                 <<"Error: Skill not found">>, "none")
    ELSE write_action(skill_name, action_name, description, code, fault)

(***************************************************************************)
(* search_skills.py and install_skill.py: result is what subprocess.run   *)
(* meets, the one time it is called                                        *)
(***************************************************************************)
(* a failed run tried a second time *)
Run_retried(result, echoed) ==
    clawhub' = [runs |-> clawhub.runs + (IF result.found /\ result.returncode = 0 THEN 1 ELSE 2),
                result |-> result, echoed |-> echoed]

Run(result, echoed) ==
    clawhub' = [runs |-> clawhub.runs + 1, result |-> result, echoed |-> echoed]

search_skills(query, result) ==
    IF ~result.found
    THEN /\ Run(result, <<>>)
         /\ Exit("search_skills", <<query>>, 1, <<"Error: 'clawhub' CLI not found">>, "none")
    ELSE IF result.returncode # 0
    THEN /\ Run(result, <<>>)
         /\ Exit("search_skills", <<query>>, 1,
                 <<"Error searching skills">>
                     \o (IF result.stderr # <<>> THEN <<"Details">> ELSE <<>>),
                 "none")
    ELSE IF strip(result.stdout) = <<>>
    THEN /\ Run(result, <<>>)
         /\ Exit("search_skills", <<query>>, 0,
                 <<"No skills found matching your query.">>, "none")
    ELSE /\ Run(result, strip(result.stdout))
         /\ Exit("search_skills", <<query>>, 0, <<"output">>, "none")

install_skill(slug, result) ==
    IF ~result.found
    THEN /\ Run(result, <<>>)
         /\ Exit("install_skill", <<slug>>, 1,
                 <<"Installing skill", "Error: 'clawhub' CLI not found">>, "none")
    ELSE IF result.returncode # 0
    THEN /\ Run(result, <<>>)
         /\ Exit("install_skill", <<slug>>, 1,
                 <<"Installing skill", "Error installing skill">>
                     \o (IF result.stderr # <<>> THEN <<"Details">> ELSE <<>>),
                 "none")
    ELSE /\ Run(result, result.stdout)
         /\ Exit("install_skill", <<slug>>, 0,
                 <<"Installing skill", "Skill installed successfully.">>
                     \o (IF result.stdout # <<>> THEN <<"output">> ELSE <<>>),
                 "none")

(***************************************************************************)
(* Two create_skill processes running at once: each filesystem call of    *)
(* create_skill, and of os.makedirs inside it, is one step                *)
(***************************************************************************)
Pids == {1, 2}

proc_skill_dir(p) == Join(skills_root, procs[p].name)

proc_scripts_dir(p) == Join(proc_skill_dir(p), SCRIPTS)

Goto(p, pc) == procs' = [procs EXCEPT ![p].pc = pc]

Finish(p, status, out) ==
    procs' = [procs EXCEPT ![p].pc = "done", ![p].status = status, ![p].out = out]

(* if os.path.exists(skill_dir): ... sys.exit(1) *)
race_check(p) ==
    /\ procs[p].pc = "check"
    /\ IF exists(proc_skill_dir(p))
       THEN Finish(p, 1, "Error: Skill already exists")
       ELSE Goto(p, "makedirs")
    /\ UNCHANGED <<dirs, files>>

(* os.makedirs: if head and tail and not path.exists(head) *)
race_makedirs(p) ==
    /\ procs[p].pc = "makedirs"
    /\ IF exists(proc_skill_dir(p)) THEN Goto(p, "mkdir") ELSE Goto(p, "mkdir_head")
    /\ UNCHANGED <<dirs, files>>

(* os.makedirs: makedirs(head), a FileExistsError from it is ignored *)
race_mkdir_head(p) ==
    /\ procs[p].pc = "mkdir_head"
    /\ dirs' = dirs \cup {proc_skill_dir(p)}
    /\ Goto(p, "mkdir")
    /\ UNCHANGED files

(* mkdir(name) under exist_ok=True *)
race_mkdir_exist_ok(p) ==
    /\ procs[p].pc = "mkdir"
    /\ dirs' = dirs \cup {proc_scripts_dir(p)}
    /\ Goto(p, "open")
    /\ UNCHANGED files

(* os.makedirs: mkdir(name), exist_ok=False; a FileExistsError reaches the
   except of create_skill, which exits 1 *)
race_mkdir(p) ==
    /\ procs[p].pc = "mkdir"
    /\ IF exists(proc_scripts_dir(p))
       THEN Finish(p, 1, "Error creating skill") /\ UNCHANGED dirs
       ELSE dirs' = dirs \cup {proc_scripts_dir(p)} /\ Goto(p, "open")
    /\ UNCHANGED files

(* open(SKILL.md, "w") creates or truncates the file *)
race_open(p) ==
    /\ procs[p].pc = "open"
    /\ files' = WriteFile(files, Join(proc_skill_dir(p), SKILL_MD), <<>>)
    /\ Goto(p, "write")
    /\ UNCHANGED dirs

(* f.write(skill_md_content), and the function returns *)
race_write(p) ==
    /\ procs[p].pc = "write"
    /\ files' = WriteFile(files, Join(proc_skill_dir(p), SKILL_MD),
                          skill_md_content(procs[p].name, procs[p].description))
    /\ procs' = [procs EXCEPT ![p].pc = "done", ![p].status = 0, ![p].wrote = TRUE,
                              ![p].out = "Created SKILL.md"]
    /\ UNCHANGED dirs

(***************************************************************************)
(* Inputs                                                                  *)
(***************************************************************************)
SkillNames == {<<"s">>, <<"t", "-", "u">>}

Descriptions == {<<"d">>}

ActionNames == {<<"a">>, <<"a", "_", "b">>}

Codes == {<<"l", "s">>, <<"i", "d">>, PY_IMPORT \o <<"x">>, JS_CONST \o <<"x">>}

CreateFaults == {"none", "mkdir_head", "mkdir", "md_open", "md_write"}

ImplementFaults ==
    {"none", "mkdir", "script_open", "script_write", "chmod", "md_read", "md_append"}

Queries == {<<"q">>, <<"r">>}

ToolResults ==
    {[found |-> FALSE, returncode |-> 0, stdout |-> <<>>, stderr |-> <<>>]}
    \cup [found : {TRUE}, returncode : {0, 1, 2},
          stdout : {<<>>, <<" ", "\n">>, <<"o", "k", "\n">>},
          stderr : {<<>>, <<"e">>}]

NoCall == [op |-> "none", args |-> <<>>, status |-> 0, out |-> <<>>, fault |-> "none"]

NoRun ==
    [runs |-> 0, echoed |-> <<>>,
     result |-> [found |-> FALSE, returncode |-> 0, stdout |-> <<>>, stderr |-> <<>>]]

NoProcs ==
    [p \in Pids |-> [pc |-> "none", name |-> <<>>, description |-> <<>>,
                     status |-> -1, wrote |-> FALSE, out |-> ""]]

(***************************************************************************)
(* Spec: the scaffolder and the appender, one invocation after another,   *)
(* from an empty skills root                                               *)
(***************************************************************************)
Init ==
    /\ dirs = {skills_root}
    /\ files = <<>>
    /\ last = NoCall
    /\ calls = 0
    /\ nfaults = 0
    /\ procs = NoProcs
    /\ clawhub = NoRun

MayFail(fault) == fault = "none" \/ nfaults < MaxFaults

CreateSkill ==
    \E name \in SkillNames, description \in Descriptions, fault \in CreateFaults :
        /\ calls < MaxCalls
        /\ MayFail(fault)
        /\ create_skill(name, description, fault)
        /\ UNCHANGED <<procs, clawhub>>

ImplementAction ==
    \E skill_name \in SkillNames, action_name \in ActionNames,
       description \in Descriptions, code \in Codes, fault \in ImplementFaults :
        /\ calls < MaxCalls
        /\ MayFail(fault)
        /\ implement_action(skill_name, action_name, description, code, fault)
        /\ UNCHANGED <<procs, clawhub>>

Next == CreateSkill \/ ImplementAction

Spec == Init /\ [][Next]_vars

(***************************************************************************)
(* SpecRegistry: the two registry clients                                  *)
(***************************************************************************)
SearchSkills ==
    \E query \in Queries, result \in ToolResults :
        /\ calls < MaxCalls
        /\ search_skills(query, result)
        /\ UNCHANGED <<dirs, files, procs>>

InstallSkill ==
    \E slug \in Queries, result \in ToolResults :
        /\ calls < MaxCalls
        /\ install_skill(slug, result)
        /\ UNCHANGED <<dirs, files, procs>>

NextRegistry == SearchSkills \/ InstallSkill

SpecRegistry == Init /\ [][NextRegistry]_vars

(***************************************************************************)
(* SpecRace: two create_skill invocations started together                 *)
(***************************************************************************)
InitRace ==
    /\ dirs = {skills_root}
    /\ files = <<>>
    /\ last = NoCall
    /\ calls = 0
    /\ nfaults = 0
    /\ clawhub = NoRun
    /\ procs \in [Pids -> [pc : {"check"}, name : SkillNames,
                           description : Descriptions \cup {<<"e">>},
                           status : {-1}, wrote : {FALSE}, out : {""}]]

RaceCheck == \E p \in Pids : race_check(p) /\ UNCHANGED <<last, calls, nfaults, clawhub>>

RaceMakedirs == \E p \in Pids : race_makedirs(p) /\ UNCHANGED <<last, calls, nfaults, clawhub>>

RaceMkdirHead == \E p \in Pids : race_mkdir_head(p) /\ UNCHANGED <<last, calls, nfaults, clawhub>>

RaceMkdir == \E p \in Pids : race_mkdir(p) /\ UNCHANGED <<last, calls, nfaults, clawhub>>

RaceOpen == \E p \in Pids : race_open(p) /\ UNCHANGED <<last, calls, nfaults, clawhub>>

RaceWrite == \E p \in Pids : race_write(p) /\ UNCHANGED <<last, calls, nfaults, clawhub>>

NextRace ==
    RaceCheck \/ RaceMakedirs \/ RaceMkdirHead \/ RaceMkdir \/ RaceOpen \/ RaceWrite

SpecRace == InitRace /\ [][NextRace]_vars

(***************************************************************************)
(* SpecInfer: the extension inferred for a code, over codes made of       *)
(* leading whitespace, a first token and a rest                            *)
(***************************************************************************)
Pads == UNION {[1..n -> {" ", "\n"}] : n \in 0..MaxPad}

Heads ==
    {<<"#", "!", "/", "u", "s", "r", "/", "b", "i", "n", "/", "e", "n", "v",
       " ", "p", "y", "t", "h", "o", "n">>,
     <<"i", "m", "p", "o", "r", "t", " ">>,
     <<"#", "!", "/", "u", "s", "r", "/", "b", "i", "n", "/", "e", "n", "v",
       " ", "n", "o", "d", "e">>,
     <<"c", "o", "n", "s", "t", " ">>,
     <<"#", "!", "/", "b", "i", "n", "/", "b", "a", "s", "h">>,
     <<"#", "!", "/", "u", "s", "r", "/", "b", "i", "n", "/", "p", "e", "r",
       "l">>,
     <<"#", "!", "/", "u", "s", "r", "/", "b", "i", "n", "/", "p", "y", "t",
       "h", "o", "n", "3">>,
     <<"e", "c", "h", "o">>,
     <<"i", "m", "p", "o", "r", "t">>,
     <<"c", "o", "n", "s", "t">>,
     <<"#", "!", "/", "u", "s", "r", "/", "b", "i", "n", "/", "e", "n", "v",
       " ", "r", "u", "b", "y">>,
     <<>>}

Tails == {<<>>, <<"3", "\n">>, <<"x">>, <<" ">>, <<"\n">>}

InferCodes == {pad \o head \o tail : pad \in Pads, head \in Heads, tail \in Tails}

InitInfer ==
    /\ dirs = {skills_root}
    /\ files = <<>>
    /\ last \in {[op |-> "code", args |-> <<code>>, status |-> 0, out |-> <<>>,
                  fault |-> "none"] : code \in InferCodes}
    /\ calls = 0
    /\ nfaults = 0
    /\ procs = NoProcs
    /\ clawhub = NoRun

InferExt ==
    /\ last.op = "code"
    /\ last' = [last EXCEPT !.op = "script_ext", !.out = <<script_ext(last.args[1])>>]
    /\ UNCHANGED <<dirs, files, calls, nfaults, procs, clawhub>>

NextInfer == InferExt

SpecInfer == InitInfer /\ [][NextInfer]_vars

(***************************************************************************)
(* Properties                                                              *)
(***************************************************************************)
CreateStep == calls' = calls + 1 /\ last'.op = "create_skill"

ImplementStep == calls' = calls + 1 /\ last'.op = "implement_action"

SkillMdOf(skill) == Join(Join(skills_root, skill), SKILL_MD)

ScriptsDirOf(skill) == Join(Join(skills_root, skill), SCRIPTS)

Extensions == {EXT_SH, EXT_PY, EXT_JS}

(* the script files of one action in a filesystem *)
ScriptsOf(fs, skill, action) ==
    {p \in DOMAIN fs : \E ext \in Extensions : p = Join(ScriptsDirOf(skill), action \o ext)}

(* the files of a skill's scripts directory *)
ScriptFiles(fs, skill) ==
    {p \in DOMAIN fs : Len(p) = 3 /\ Parent(p) = ScriptsDirOf(skill)}

AllExecuteBits(mode) ==
    /\ (mode \div 64) % 2 = 1
    /\ (mode \div 8) % 2 = 1
    /\ mode % 2 = 1

(* C1: create_skill on a skill directory that already exists exits 1 and
   writes nothing: no directory is created and no file changes. *)
C1_ExistingSkillRejected ==
    [][(CreateStep /\ exists(Join(skills_root, last'.args[1])))
           => (last'.status = 1 /\ dirs' = dirs /\ files' = files)]_vars

(* a second create_skill, rejected, for a skill an earlier call scaffolded *)
C1_Witness ==
    /\ last.op = "create_skill"
    /\ last.status = 1
    /\ last.out = <<"Error: Skill already exists">>
    /\ calls >= 2
    /\ IsDir(ScriptsDirOf(last.args[1]))
    /\ IsFile(SkillMdOf(last.args[1]))
    /\ files[SkillMdOf(last.args[1])].content
           = skill_md_content(last.args[1], last.args[2])

(* C2: implement_action on a skill whose directory does not exist exits 1
   and creates no file and no directory. *)
C2_MissingSkillRejected ==
    [][(ImplementStep /\ ~exists(Join(skills_root, last'.args[1])))
           => (last'.status = 1 /\ dirs' = dirs /\ files' = files)]_vars

(* implement_action was refused while another skill exists *)
C2_Witness ==
    /\ last.op = "implement_action"
    /\ last.status = 1
    /\ last.out = <<"Error: Skill not found">>
    /\ ~exists(Join(skills_root, last.args[1]))
    /\ \E other \in SkillNames : IsFile(SkillMdOf(other))

(* C3: a second successful implement_action with the same action name on the
   same skill, in a run without filesystem errors, leaves one script file for
   the action, holding the second code, warns, and leaves SKILL.md as it was. *)
C3_SecondCallOverwrites ==
    [][(/\ ImplementStep
        /\ last.op = "implement_action"
        /\ last.args[1] = last'.args[1]
        /\ last.args[2] = last'.args[2]
        /\ last.status = 0
        /\ last'.status = 0
        /\ nfaults' = 0)
           => (/\ Cardinality(ScriptsOf(files', last'.args[1], last'.args[2])) = 1
               /\ \A p \in ScriptsOf(files', last'.args[1], last'.args[2]) :
                      files'[p].content = last'.args[4]
               /\ last'.out = <<"Created script", "Warning: Action seems to already exist">>
               /\ files'[SkillMdOf(last'.args[1])] = files[SkillMdOf(last'.args[1])])]_vars

(* C4: on an existing skill, a successful implement_action with an action
   name that has no script yet adds exactly one file to the scripts directory,
   <action_name><ext>, with mode 0o755 and the code as content, and changes no
   other file there. *)
C4_FreshActionAddsOneScript ==
    [][(/\ ImplementStep
        /\ last'.status = 0
        /\ exists(Join(skills_root, last'.args[1]))
        /\ ScriptsOf(files, last'.args[1], last'.args[2]) = {})
           => (\E ext \in Extensions :
                  LET path == Join(ScriptsDirOf(last'.args[1]), last'.args[2] \o ext)
                  IN  /\ ScriptFiles(files', last'.args[1])
                             = ScriptFiles(files, last'.args[1]) \cup {path}
                      /\ path \notin DOMAIN files
                      /\ files'[path].content = last'.args[4]
                      /\ files'[path].mode = Mode755
                      /\ AllExecuteBits(files'[path].mode)
                      /\ \A q \in ScriptFiles(files, last'.args[1]) :
                             files'[q] = files[q])]_vars

(* a documented new action beside an older script of the same skill *)
C4_Witness ==
    /\ last.op = "implement_action"
    /\ last.status = 0
    /\ last.out = <<"Created script", "Updated SKILL.md">>
    /\ Cardinality(ScriptsOf(files, last.args[1], last.args[2])) = 1
    /\ Cardinality(ScriptFiles(files, last.args[1])) = 2
    /\ \A p \in ScriptsOf(files, last.args[1], last.args[2]) :
           files[p] = [content |-> last.args[4], mode |-> Mode755]

(* C5: a failure writing or chmod-ing the script exits 1 and leaves SKILL.md
   untouched; a failure reading or appending SKILL.md, its absence included,
   is reported, exits 0 and leaves the script written and executable. *)
C5_FailureAsymmetry ==
    [][ImplementStep =>
        LET skill == last'.args[1]
            md == SkillMdOf(skill)
            script == Join(ScriptsDirOf(skill),
                           last'.args[2] \o script_ext(last'.args[4]))
            md_absent == /\ last'.fault = "none"
                         /\ exists(Join(skills_root, skill))
                         /\ ~IsFile(md)
        IN  /\ last'.fault \in {"script_open", "script_write", "chmod"}
                => /\ last'.status = 1
                   /\ last'.out = <<"Error writing script file">>
                   /\ (md \in DOMAIN files') = (md \in DOMAIN files)
                   /\ md \in DOMAIN files => files'[md] = files[md]
            /\ (last'.fault \in {"md_read", "md_append"} \/ md_absent)
                => /\ last'.status = 0
                   /\ last'.out = <<"Created script", "Error updating SKILL.md">>
                   /\ script \in DOMAIN files'
                   /\ files'[script] = [content |-> last'.args[4], mode |-> Mode755]]_vars

(* the SKILL.md update failed after the script was written *)
C5_Witness ==
    /\ last.op = "implement_action"
    /\ last.fault \in {"md_read", "md_append"}
    /\ last.status = 0
    /\ last.out = <<"Created script", "Error updating SKILL.md">>
    /\ ScriptsOf(files, last.args[1], last.args[2]) # {}

BASE_DIR_SCRIPTS ==
    <<"{", "b", "a", "s", "e", "D", "i", "r", "}", "/", "s", "c", "r", "i",
      "p", "t", "s", "/">>

LeadingBlanks(code) ==
    CHOOSE n \in 0..Len(code) :
        /\ \A k \in 1..n : code[k] \in WHITESPACE
        /\ n < Len(code) => code[n + 1] \notin WHITESPACE

TrailingBlanks(code) ==
    CHOOSE n \in 0..Len(code) :
        /\ \A k \in (Len(code) - n + 1)..Len(code) : code[k] \in WHITESPACE
        /\ n < Len(code) => code[Len(code) - n] \notin WHITESPACE

(* code without its leading and trailing whitespace *)
Trimmed(code) ==
    IF LeadingBlanks(code) = Len(code)
    THEN <<>>
    ELSE SubSeq(code, LeadingBlanks(code) + 1, Len(code) - TrailingBlanks(code))

(* the classification the claim describes, of a text: python's markers,
   then node's, then the shell default *)
Classified(text, ext) ==
    LET python == startswith(text, PY_SHEBANG) \/ startswith(text, PY_IMPORT)
        node == startswith(text, JS_SHEBANG) \/ startswith(text, JS_CONST)
    IN  /\ python => ext = EXT_PY
        /\ (~python /\ node) => ext = EXT_JS
        /\ (~python /\ ~node) => ext = EXT_SH
        /\ ext \in Extensions

(* C6, as stated: the extension is the classification of the code as it
   begins: a python marker first gives .py, a node marker first gives .js,
   anything else .sh. *)
C6_LiteralPrefix ==
    last.op = "script_ext" => Classified(last.args[1], last.out[1])

(* C6, amended: the extension is that classification of the code with its
   leading and trailing whitespace removed. *)
C6_TrimmedPrefix ==
    last.op = "script_ext" => Classified(Trimmed(last.args[1]), last.out[1])

(* a python import behind leading whitespace was classified .py *)
C6_Witness ==
    /\ last.op = "script_ext"
    /\ last.args[1] # <<>>
    /\ last.args[1][1] \in WHITESPACE
    /\ startswith(Trimmed(last.args[1]), PY_IMPORT)
    /\ last.out = <<EXT_PY>>

(* C7: one run of the tool decides the outcome of search and install: tool
   absent, the not-found message and exit 1; non-zero exit, an error and exit
   1; zero exit, exit 0, search printing the no-results message when the
   output is all whitespace; and the tool is run once per call. *)
C7_RegistryOutcome ==
    /\ clawhub.runs = calls
    /\ last.op \in {"search_skills", "install_skill"} =>
        LET r == clawhub.result
            blank == \A i \in 1..Len(r.stdout) : r.stdout[i] \in WHITESPACE
            not_found == "Error: 'clawhub' CLI not found"
        IN  /\ ~r.found => last.status = 1 /\ last.out[Len(last.out)] = not_found
            /\ (r.found /\ r.returncode # 0)
                => /\ last.status = 1
                   /\ \E i \in 1..Len(last.out) :
                          last.out[i] \in {"Error searching skills", "Error installing skill"}
                   /\ \A i \in 1..Len(last.out) : last.out[i] # not_found
            /\ (r.found /\ r.returncode = 0)
                => /\ last.status = 0
                   /\ last.op = "search_skills" =>
                          IF blank
                          THEN /\ last.out = <<"No skills found matching your query.">>
                               /\ clawhub.echoed = <<>>
                          ELSE /\ last.out = <<"output">>
                               /\ clawhub.echoed # <<>>

(* a search whose tool succeeded with only whitespace as output *)
C7_Witness ==
    /\ last.op = "search_skills"
    /\ clawhub.result.found
    /\ clawhub.result.returncode = 0
    /\ clawhub.result.stdout # <<>>
    /\ last.out = <<"No skills found matching your query.">>
    /\ last.status = 0

(* the heading of an action is a line of the document *)
HasSection(content, action_name) ==
    contains(content, NL \o action_heading(action_name) \o NL)

AllScriptsReferenced(fs) ==
    \A p \in DOMAIN fs :
        (Len(p) = 3 /\ p[2] = SCRIPTS /\ Join(<<p[1]>>, SKILL_MD) \in DOMAIN fs)
            => contains(fs[Join(<<p[1]>>, SKILL_MD)].content, BASE_DIR_SCRIPTS \o p[3] \o NL)

(* C8: in a run without filesystem errors, a successful implement_action
   whose action has no documentation section yet appends the block: the
   level-3 heading, the description and the fenced {baseDir}/scripts/<filename>
   of the script it wrote.  (That every script file is referenced by a block
   of SKILL.md, AllScriptsReferenced, rests on this.) *)
C8_EveryActionDocumented ==
    [][(ImplementStep /\ last'.status = 0 /\ nfaults' = 0) =>
        LET skill == last'.args[1]
            action == last'.args[2]
            md == SkillMdOf(skill)
            filename == action \o script_ext(last'.args[4])
        IN  ~HasSection(files[md].content, action)
                => /\ files'[md].content
                          = files[md].content
                                \o new_action_block(action, last'.args[3], filename)
                   /\ AllScriptsReferenced(files')]_vars

(* C9, as stated: every skill directory under the skills root holds SKILL.md
   (and its scripts entry, if any, is one directory). *)
C9_EverySkillHasMetadata ==
    \A d \in dirs : Len(d) = 1 =>
        /\ IsFile(Join(d, SKILL_MD))
        /\ ~IsFile(Join(d, SCRIPTS))

(* C9, amended: a create_skill that exits 0 leaves the skill directory with
   SKILL.md as a file and scripts as a directory; no invocation removes a file
   or a directory or turns one into the other, and implement_action never
   creates a SKILL.md that is missing. *)
C9_SuccessfulCreateIsComplete ==
    [][/\ (CreateStep /\ last'.status = 0)
           => /\ SkillMdOf(last'.args[1]) \in DOMAIN files'
              /\ ScriptsDirOf(last'.args[1]) \in dirs'
       /\ ImplementStep
           => \A skill \in SkillNames :
                  (SkillMdOf(skill) \in DOMAIN files') = (SkillMdOf(skill) \in DOMAIN files)
       /\ \A p \in DOMAIN files : p \in DOMAIN files'
       /\ dirs \subseteq dirs'
       /\ dirs' \cap DOMAIN files' = {}]_vars

(* a scaffolded skill beside a skill directory that a failed create_skill
   left without SKILL.md *)
C9_Witness ==
    /\ last.op = "create_skill"
    /\ last.status = 0
    /\ IsFile(SkillMdOf(last.args[1]))
    /\ IsDir(ScriptsDirOf(last.args[1]))
    /\ \E other \in SkillNames :
           IsDir(Join(skills_root, other)) /\ ~IsFile(SkillMdOf(other))

(* C10: of two concurrent create_skill invocations for the same name, at most
   one exits 0 and at most one writes SKILL.md. *)
C10_AtMostOneCreates ==
    \A p \in Pids, q \in Pids :
        (p # q /\ procs[p].name = procs[q].name)
            => /\ ~(procs[p].status = 0 /\ procs[q].status = 0)
               /\ ~(procs[p].wrote /\ procs[q].wrote)

(* both passed the existence check; one created the skill, the other failed
   in makedirs *)
C10_Witness ==
    \E p \in Pids, q \in Pids :
        /\ p # q
        /\ procs[p].name = procs[q].name
        /\ procs[p].pc = "done" /\ procs[p].status = 0 /\ procs[p].wrote
        /\ procs[q].pc = "done" /\ procs[q].status = 1
        /\ procs[q].out = "Error creating skill"

====
